---- MODULE Spec2Model ----
(***************************************************************************)
(* Hypertension decision support: the risk engine and the medication rule  *)
(* engines of app.py (Streamlit script) and gp_htn_support.py (CLI demo).  *)
(*                                                                         *)
(* Units.  The programs compute with floats; the model keeps every value   *)
(* as an integer in the smallest unit the thresholds need:                 *)
(*   sbp    mmHg                  score2_pct  tenths of a percent          *)
(*   na, k  tenths of mmol/L      egfr        mL/min/1.73m2                *)
(*   urate  hundredths of mmol/L  tc, hdl     tenths of mmol/L             *)
(* None is Python's None.  Danish strings are written in ASCII             *)
(* (aa, ae, oe for the Danish letters).                                    *)
(***************************************************************************)
EXTENDS Integers, Sequences, FiniteSets, TLC

VARIABLES
    patient,         \* the inputs of one evaluation (widget values / Patient)
    coeff_df,        \* app.py:57/77  the coefficient table in force
    baseline_df,     \* app.py:58/79  the baseline table in force
    pc,              \* which engine has run on the patient ("input" = none yet)
    recommendation,  \* app.py:520  result of build_recommendation (with mode, grade)
    med,             \* gp_htn_support.py:241  result of med_recommendations
    cat,             \* app.py:275  result of risk_category
    s2,              \* gp_htn_support.py:235  result of score2_intervention_flag
    auto_score2,     \* app.py:273  result of calculate_score2
    refs             \* app.py:240  result of age_adjusted_refs

vars == <<patient, coeff_df, baseline_df, pc, recommendation, med, cat, s2, auto_score2, refs>>

None == -1            \* Python's None where a number is expected
NoneText == "None"    \* Python's None where a string is expected

(***************************************************************************)
(* Bounds of the input grids.                                              *)
(***************************************************************************)
NSbp == 6            \* sbp in 120, 130, ..., 120 + 10 * NSbp
NRisk == 3           \* score2_pct in 5.0 %, 7.5 %, ... (steps of 2.5 %)
MaxFlags == 2        \* app.py: at most this many check boxes ticked at once
MaxMedFlags == 4     \* gp_htn_support.py: at most this many flags set at once
MaxAge == 100        \* ages up to the end of the PatientRecord range
NPct == 9            \* risk_category: percentages 0 %, 2.5 %, ..., NPct * 2.5 %
NHdl == 2            \* calculate_score2: hdl in 0.8, 1.4, ... (steps of 0.6 mmol/L)
NScoreSbp == 2       \* calculate_score2: sbp in 110, 150, ... (steps of 40 mmHg)

(***************************************************************************)
(* app.py: static tables                                                   *)
(***************************************************************************)
InteractionOrder ==
    <<"Lithium", "NSAID (fast)", "Verapamil/diltiazem",
      "Kaliumtilskud/K+-spare", "Prednisolon (hoej dosis)">>

INTERACTION_DEFS ==
    [drug \in {InteractionOrder[i] : i \in 1..Len(InteractionOrder)} |->
       CASE drug = "Lithium" ->
              [avoid |-> <<"ACE-haemmer", "ARB", "Tiazid(-lign.) diuretikum">>,
               why |-> "Oeget lithium-niveau og toksicitet."]
         [] drug = "NSAID (fast)" ->
              [avoid |-> <<"ACE/ARB + diuretikum (kombination)">>,
               why |-> "Oeget risiko for AKI ('triple whammy')."]
         [] drug = "Verapamil/diltiazem" ->
              [avoid |-> <<"Beta-blokker">>,
               why |-> "Risiko for AV-blok/bradykardi i kombination."]
         [] drug = "Kaliumtilskud/K+-spare" ->
              [avoid |-> <<"MRA (spironolakton/eplerenon)", "ACE-haemmer", "ARB">>,
               why |-> "Hyperkaliaemi-risiko."]
         [] drug = "Prednisolon (hoej dosis)" ->
              [caution |-> <<"Diuretika">>,
               why |-> "Vaeskeretention; kan modvirke antihypertensiv effekt."]]

DRUGS ==
    [ACE |-> <<[name |-> "Perindopril (Coversyl)", dose |-> "2 mg x 1"],
               [name |-> "Ramipril (Tritace)", dose |-> "2,5 mg x 1"]>>,
     ARB |-> <<[name |-> "Candesartan (Atacand)", dose |-> "8 mg x 1"],
               [name |-> "Losartan (Cozaar)", dose |-> "50 mg x 1"]>>,
     CCB_DHP |-> <<[name |-> "Amlodipin (Norvasc)", dose |-> "5 mg x 1"]>>,
     THIAZIDE_LIKE |-> <<[name |-> "Indapamid (Natrilix SR)", dose |-> "1,5 mg x 1"],
                         [name |-> "Chlortalidon (Chlortalidon)", dose |-> "12,5 mg x 1"]>>,
     BETA |-> <<[name |-> "Metoprolol dep. (Selo-Zok)", dose |-> "25-50 mg x 1"]>>,
     MRA |-> <<[name |-> "Spironolakton (Spiron)", dose |-> "25 mg x 1"]>>,
     PREG |-> <<[name |-> "Labetalol (Trandate)", dose |-> "100-200 mg x 2"],
                [name |-> "Nifedipin dep. (Adalat/Nifedipin)", dose |-> "30 mg x 1"],
                [name |-> "Methyldopa (Aldomet)", dose |-> "250 mg x 2-3"]>>]

(***************************************************************************)
(* app.py: lab predicates and blood-pressure grade                         *)
(***************************************************************************)
has_hyperkalemia(k_val) == k_val /= None /\ k_val >= 50

has_hyponatremia(na_val) == na_val /= None /\ na_val < 1330

egfr_low(egfr_val) == egfr_val /= None /\ egfr_val < 30

gout_risk(urate_val, gout_flag) == gout_flag \/ (urate_val /= None /\ urate_val > 42)

sbp_grade(sbp_val) ==
    IF sbp_val >= 180 THEN "Grad 3"
    ELSE IF sbp_val >= 160 THEN "Grad 2"
    ELSE IF sbp_val >= 140 THEN "Grad 1"
    ELSE IF sbp_val >= 130 THEN "Hoejt-normal"
    ELSE "Normal"

\* indication_for_treatment with a fault: Grade 1 decided with the 10.0 % threshold of the high-normal tier
indication_one_threshold(sbp_val, score2_pct, high_risk_flags) ==
    LET grade == sbp_grade(sbp_val) IN
    IF grade \in {"Grad 2", "Grad 3"}
    THEN <<"Pharmacologic", grade \o ": behandlingsindikation.">>
    ELSE IF grade \in {"Grad 1", "Hoejt-normal"}
    THEN IF high_risk_flags \/ score2_pct >= 100
         THEN <<"Pharmacologic", "Forhoejet risiko/komorbiditet.">>
         ELSE <<"Conservative", "Uden hoejrisiko.">>
    ELSE <<"Conservative", "Normalt BT: livsstilsraad og observation.">>

indication_for_treatment(sbp_val, score2_pct, high_risk_flags) ==
    LET grade == sbp_grade(sbp_val) IN
    IF grade \in {"Grad 2", "Grad 3"}
    THEN <<"Pharmacologic", grade \o ": behandlingsindikation.">>
    ELSE IF grade = "Grad 1"
    THEN IF high_risk_flags \/ score2_pct >= 75
         THEN <<"Pharmacologic", "Grad 1 + forhoejet risiko/komorbiditet: behandlingsindikation.">>
         ELSE <<"Conservative", "Grad 1 uden hoejrisiko: start livsstilsintervention og taet kontrol.">>
    ELSE IF grade = "Hoejt-normal"
    THEN IF high_risk_flags \/ score2_pct >= 100
         THEN <<"Pharmacologic", "Hoejt-normal + hoej risiko/komorbiditet: kan overveje farmakologisk.">>
         ELSE <<"Conservative", "Hoejt-normal: livsstilsintervention og revurdering.">>
    ELSE <<"Conservative", "Normalt BT: livsstilsraad og observation.">>

(***************************************************************************)
(* app.py: build_recommendation                                            *)
(***************************************************************************)
\* ', '.join(seq)
RECURSIVE Join(_)
Join(seq) ==
    IF Len(seq) = 0 THEN ""
    ELSE IF Len(seq) = 1 THEN seq[1]
    ELSE seq[1] \o ", " \o Join(Tail(seq))

\* for d in DRUGS[cls]: out["firstline"].append({name, dose, note})
DrugItems(cls, note) ==
    [i \in 1..Len(DRUGS[cls]) |->
        [name |-> DRUGS[cls][i].name, dose |-> DRUGS[cls][i].dose, note |-> note]]

Text(seq) == [i \in 1..Len(seq) |-> [text |-> seq[i]]]

\* the loop over interactions_checked.items(): what it appends to out["avoid"]
RECURSIVE InteractionAvoid(_, _)
InteractionAvoid(checked, i) ==
    IF i > Len(InteractionOrder) THEN <<>>
    ELSE LET drug == InteractionOrder[i]
             entry == INTERACTION_DEFS[drug]
         IN  (IF drug \notin checked THEN <<>>
              ELSE (IF "avoid" \in DOMAIN entry
                    THEN <<"Interaktion (" \o drug \o "): undgaa " \o Join(entry.avoid) \o ".">>
                    ELSE <<>>)
                   \o
                   (IF "caution" \in DOMAIN entry
                    THEN <<"Interaktion (" \o drug \o "): forsigtighed med " \o Join(entry.caution) \o ".">>
                    ELSE <<>>))
             \o InteractionAvoid(checked, i + 1)

\* the loop over interactions_checked.items(): what it appends to out["rationale"]
RECURSIVE InteractionRationale(_, _)
InteractionRationale(checked, i) ==
    IF i > Len(InteractionOrder) THEN <<>>
    ELSE LET drug == InteractionOrder[i]
             entry == INTERACTION_DEFS[drug]
         IN  (IF drug \in checked /\ "why" \in DOMAIN entry
              THEN <<"Interaktion (" \o drug \o "): " \o entry.why>>
              ELSE <<>>)
             \o InteractionRationale(checked, i + 1)

conservative_list ==
    <<"Saltreduktion (<5-6 g salt/dag) og kost med groent/fisk.",
      "Vaegttab ved BMI>25 (maal 5-10%).",
      "Alkoholreduktion (max 7/14 genstande pr. uge Kv/M).",
      "Motion >=150 min/uge (moderat) + styrke 2x/uge.",
      "Rygestop og stressreduktion/soevnoptimering.",
      "Hjemme-BT-kontrol og revurdering om 3-6 mdr.">>

\* allowed_raas with a fault: the potassium check left out
allowed_raas_pregnancy_only(p) == ~p.pregnancy

allowed_raas(p) == ~(has_hyperkalemia(p.k) \/ p.pregnancy)

allowed_thiazide(p) ==
    ~(has_hyponatremia(p.na) \/ egfr_low(p.egfr) \/ gout_risk(p.urate, p.gout))

\* allowed_ccb_dhp with a fault: the ankle-oedema note taken as a contraindication
allowed_ccb_dhp_no_edema(p) == ~p.edema

allowed_ccb_dhp(p) == TRUE

\* need_combo with a fault: the risk >= 10 % alternative left out
need_combo_no_risk(p) ==
    p.sbp >= 160 \/
    (p.sbp >= 140 /\ (p.diabetes \/ p.ckd \/ p.proteinuria))

need_combo(p) ==
    p.sbp >= 160 \/
    (p.sbp >= 140 /\ (p.diabetes \/ p.ckd \/ p.proteinuria \/ p.score2_pct >= 100))

\* out["avoid"] as it stands after the contraindication rules (lines 414-437)
AvoidRules(p) ==
    InteractionAvoid(p.interactions, 1)
    \o (IF has_hyperkalemia(p.k)
        THEN <<"Hyperkaliaemi: undgaa ACE/ARB/MRA indtil korrigeret.">> ELSE <<>>)
    \o (IF has_hyponatremia(p.na)
        THEN <<"Hyponatriaemi: undgaa tiazid-lignende diuretika.">> ELSE <<>>)
    \o (IF egfr_low(p.egfr)
        THEN <<"eGFR <30: tiazid-lignende ineffektiv; MRA med forsigtighed (overvej loop-diuretikum ved volumenoverload).">>
        ELSE <<>>)
    \o (IF gout_risk(p.urate, p.gout)
        THEN <<"Urinsyregigt/forhoejet urat: undgaa tiazid-lignende diuretika.">> ELSE <<>>)
    \o (IF p.pregnancy THEN <<"Graviditet: undgaa ACE/ARB/MRA.">> ELSE <<>>)

\* out["firstline"] of the Pharmacologic branch before the pregnancy override
PharmacologicFirstline(p) ==
    (IF allowed_raas(p)
     THEN DrugItems("ACE", "Basis.")
     ELSE (IF allowed_ccb_dhp(p)
           THEN DrugItems("CCB_DHP", "RAAS kontraindiceret.") ELSE <<>>)
          \o
          (IF allowed_thiazide(p)
           THEN DrugItems("THIAZIDE_LIKE", "RAAS kontraindiceret.") ELSE <<>>))
    \o
    (IF need_combo(p)
     THEN (IF allowed_ccb_dhp(p)
           THEN DrugItems("CCB_DHP", "Kombinationsbehandling.") ELSE <<>>)
          \o
          (IF allowed_thiazide(p)
           THEN DrugItems("THIAZIDE_LIKE", "Kombinationsbehandling.") ELSE <<>>)
     ELSE <<>>)

\* PlanB with a fault: the suggestion made from Grade 3 (SBP >= 180) only
PlanB_grade3(p) ==
    IF p.sbp >= 180 /\ allowed_raas(p) /\ ~has_hyperkalemia(p.k)
    THEN [i \in 1..Len(DRUGS.MRA) |->
            [text |-> "Resistent HT: overvej " \o DRUGS.MRA[i].name \o " "
                      \o DRUGS.MRA[i].dose \o " (monitorer K+/kreatinin)."]]
    ELSE <<>>

\* PlanB with a fault: the potassium and pregnancy conditions left out
PlanB_bp_only(p) ==
    IF p.sbp >= 160
    THEN [i \in 1..Len(DRUGS.MRA) |->
            [text |-> "Resistent HT: overvej " \o DRUGS.MRA[i].name \o " "
                      \o DRUGS.MRA[i].dose \o " (monitorer K+/kreatinin)."]]
    ELSE <<>>

PlanB(p) ==
    IF p.sbp >= 160 /\ allowed_raas(p) /\ ~has_hyperkalemia(p.k)
    THEN [i \in 1..Len(DRUGS.MRA) |->
            [text |-> "Resistent HT: overvej " \o DRUGS.MRA[i].name \o " "
                      \o DRUGS.MRA[i].dose \o " (monitorer K+/kreatinin)."]]
    ELSE <<>>

build_recommendation(p) ==
    LET grade == sbp_grade(p.sbp)
        high_risk_flags ==
            p.diabetes \/ p.ckd \/ p.proteinuria \/ p.heart_failure \/ p.cad \/ p.af
        ind == indication_for_treatment(p.sbp, p.score2_pct, high_risk_flags)
        mode == ind[1]
        why == ind[2]
        rationale ==
            <<"BT-grad: " \o grade \o ". " \o why>>
            \o InteractionRationale(p.interactions, 1)
            \o (IF p.ckd \/ p.proteinuria \/ p.diabetes
                THEN <<"CKD/albuminuri/diabetes: RAAS-blokade anbefales som grundstamme.">>
                ELSE <<>>)
            \o (IF p.heart_failure
                THEN <<"Hjertesvigt: ACE/ARB + betablokker +/- MRA (HFrEF) - foelg HF-vejledning.">>
                ELSE <<>>)
            \o (IF p.edema
                THEN <<"DHP-CCB kan give ankeloedem; kombiner evt. med ACE/ARB.">>
                ELSE <<>>)
            \o (IF mode = "Conservative"
                THEN <<"Primaert konservativ behandling valgt ud fra grad/risiko.">>
                ELSE <<>>)
        firstline ==
            IF mode = "Conservative"
            THEN IF (p.diabetes \/ p.ckd \/ p.proteinuria) /\ allowed_raas(p)
                 THEN DrugItems("ACE", "Overvej ved CKD/albuminuri/diabetes.")
                 ELSE <<>>
            ELSE IF p.pregnancy
                 THEN DrugItems("PREG", "Graviditet - undgaa RAAS/MRA.")
                 ELSE PharmacologicFirstline(p)
        avoid ==
            AvoidRules(p)
            \o (IF p.asthma_copd
                THEN <<"Astma/COPD: undgaa ikke-selektive beta-blokkere; overvej selektive ved indikation.">>
                ELSE <<>>)
    IN  [conservative |-> Text(conservative_list),
         firstline |-> firstline,
         avoid |-> Text(avoid),
         rationale |-> Text(rationale),
         planb |-> IF mode = "Conservative" THEN <<>> ELSE PlanB(p),
         mode |-> mode,
         grade |-> grade]

(***************************************************************************)
(* gp_htn_support.py: SCORE2 intervention threshold                        *)
(***************************************************************************)
NaN == -2             \* float('nan')

\* the threshold in tenths of a percent; float('nan') outside 40-75
\* intervention_threshold with a fault: the 60-69 band given the 5.0 % threshold
intervention_threshold_two_bands(age) ==
    IF 40 <= age /\ age <= 69 THEN 50
    ELSE IF 70 <= age /\ age <= 75 THEN 100
    ELSE NaN

intervention_threshold(age) ==
    IF 40 <= age /\ age <= 59 THEN 50
    ELSE IF 60 <= age /\ age <= 69 THEN 75
    ELSE IF 70 <= age /\ age <= 75 THEN 100
    ELSE NaN

\* f"{th:.1f}%" of a threshold kept in tenths
FormatThreshold(th) ==
    CASE th = 50 -> "5.0%"
      [] th = 75 -> "7.5%"
      [] th = 100 -> "10.0%"

score2_intervention_flag(p) ==
    LET th == intervention_threshold(p.age) IN
    IF p.score2_pct = None \/ ~(40 <= p.age /\ p.age <= 75)
    THEN [threshold |-> IF th = NaN THEN NoneText ELSE FormatThreshold(th),
          intervention_recommended |-> NoneText,
          note |-> "Enter SCORE2 from DSAM/ESC chart to assess threshold crossing (valid ages 40-75)."]
    ELSE [threshold |-> FormatThreshold(th),
          intervention_recommended |-> IF p.score2_pct >= th THEN "Yes" ELSE "No",
          note |-> "Threshold per DSAM: 40-59 >=5%, 60-69 >=7.5%, 70-75 >=10%."]

(***************************************************************************)
(* gp_htn_support.py: med_recommendations                                  *)
(***************************************************************************)
\* unique(seq): first occurrences, in order
RECURSIVE UniqueFrom(_, _)
UniqueFrom(seq, seen) ==
    IF Len(seq) = 0 THEN <<>>
    ELSE IF seq[1] \in seen THEN UniqueFrom(Tail(seq), seen)
    ELSE <<seq[1]>> \o UniqueFrom(Tail(seq), seen \cup {seq[1]})

\* unique with a fault: only a repeat of the element just before is dropped
RECURSIVE unique_adjacent(_)
unique_adjacent(seq) ==
    IF Len(seq) <= 1 THEN seq
    ELSE IF seq[1] = seq[2] THEN unique_adjacent(Tail(seq))
    ELSE <<seq[1]>> \o unique_adjacent(Tail(seq))

unique(seq) == UniqueFrom(seq, {})

\* the four lists as the rules leave them, before unique() (lines 90-175)
med_lists(p) ==
    LET hyperK == p.k /= None /\ p.k >= 50
        hypoK == p.k /= None /\ ~(p.k >= 50) /\ p.k <= 34
        lowNa == p.na /= None /\ p.na <= 1330
        egfr30 == p.egfr /= None /\ p.egfr < 30
        renal == p.egfr /= None /\ (p.egfr < 60 \/ p.ckd \/ p.proteinuria)
        gouty == p.gout \/ (p.urate /= None /\ p.urate > 42)
        avoid ==
            (IF hyperK
             THEN <<"ACE-haemmer (midlertidigt/individuelt)", "ARB (midlertidigt/individuelt)",
                    "K+-besparende diuretika (fx spironolakton)">>
             ELSE <<>>)
            \o (IF hypoK
                THEN <<"Tiazid(-lign.) diuretikum som monoterapi (overvej kombination med ACE/ARB eller K+-tilskud/kost)">>
                ELSE <<>>)
            \o (IF lowNa THEN <<"Tiazid(-lign.) diuretikum">> ELSE <<>>)
            \o (IF egfr30
                THEN <<"Tiazid(-lign.) diuretikum (nedsat effekt ved eGFR <30)",
                       "K+-besparende diuretika (forsigtighed)">>
                ELSE <<>>)
            \o (IF gouty THEN <<"Tiazid(-lign.) diuretikum">> ELSE <<>>)
            \o (IF p.asthma_copd THEN <<"Ikke-selektive beta-blokkere">> ELSE <<>>)
            \o (IF p.edema
                THEN <<"DHP-CCB som monoterapi (overvej kombination med ACE/ARB)">>
                ELSE <<>>)
            \o (IF p.pregnancy
                THEN <<"ACE-haemmer", "ARB", "MRA (spironolakton/eplerenon)">>
                ELSE <<>>)
        rules ==
            (IF renal
             THEN <<"ACE-haemmer eller ARB (nefroprotektion ved proteinuri/CKD)">>
             ELSE <<>>)
            \o (IF p.diabetes
                THEN <<"ACE-haemmer eller ARB (isaer ved albuminuri)">> ELSE <<>>)
            \o (IF p.cad \/ p.stroke_tia
                THEN <<"ACE-haemmer eller ARB", "DHP-CCB (amlodipin)">> ELSE <<>>)
            \o (IF p.heart_failure
                THEN <<"ACE-haemmer eller ARB", "Beta-blokker (HF-udgave)",
                       "Mineralokortikoid-antagonist (ved HFrEF og efter K+/nyrer)">>
                ELSE <<>>)
            \o (IF p.af THEN <<"Beta-blokker (hvis frekvenskontrol oenskes)">> ELSE <<>>)
            \o (IF p.pregnancy
                THEN <<"Labetalol", "Nifedipin (retard)", "Methyldopa">> ELSE <<>>)
        first_line ==
            IF rules = <<>>
            THEN <<"ACE-haemmer ELLER ARB", "DHP-CCB (amlodipin)",
                   "Tiazid-lignende diuretikum (indapamid/klortalidon)">>
            ELSE rules
        combos ==
            <<"ACE-haemmer/ARB + DHP-CCB",
              "ACE-haemmer/ARB + tiazid-lignende diuretikum",
              "DHP-CCB + tiazid-lignende diuretikum (hvis RAAS-blokade ikke taales)">>
        rationales ==
            (IF hyperK
             THEN <<"Hyperkaliaemi oeger risiko ved ACE/ARB/K+-besparende; korriger K+ og vurder aarsag foerst.">>
             ELSE <<>>)
            \o (IF hypoK
                THEN <<"Hypokaliaemi kan forvaerres af tiazider; korriger og/eller kombiner for at balancere K+.">>
                ELSE <<>>)
            \o (IF lowNa
                THEN <<"Hyponatriaemi kan forvaerres af tiazider; undgaa tilstanden er korrigeret.">>
                ELSE <<>>)
            \o (IF egfr30
                THEN <<"Tiazider er ofte ineffektive ved eGFR <30; overvej loop-diuretika ved volumenoverload.">>
                ELSE <<>>)
            \o (IF renal
                THEN <<"ACE/ARB reducerer albuminuri og beskytter nyrefunktion. Monitorer kreatinin/K+.">>
                ELSE <<>>)
            \o (IF p.diabetes
                THEN <<"Ved diabetes og albuminuri anbefales RAAS-blokade som grundstamme.">>
                ELSE <<>>)
            \o (IF p.cad \/ p.stroke_tia
                THEN <<"Sekundaerprofylakse: RAAS-blokade og/eller CCB har outcome-data; beta-blokker ved angina/post-MI.">>
                ELSE <<>>)
            \o (IF p.heart_failure
                THEN <<"HFrEF: livsforlaengende behandling. Vurder ejection fraction og guideline-specifik titrering.">>
                ELSE <<>>)
            \o (IF p.af
                THEN <<"AF: beta-blokker kan vaere hensigtsmaessig ved behov for frekvenskontrol.">>
                ELSE <<>>)
            \o (IF gouty
                THEN <<"Tiazider kan oege urinsyre og trigge urinsyregigt.">> ELSE <<>>)
            \o (IF p.asthma_copd
                THEN <<"Bronkokonstriktionsrisiko ved ikke-selektive beta-blokkere.">>
                ELSE <<>>)
            \o (IF p.edema
                THEN <<"Amlodipin kan give ankelsvulst; RAAS-kombination reducerer risiko.">>
                ELSE <<>>)
            \o (IF p.pregnancy
                THEN <<"Graviditet: undgaa RAAS-blokade. Foretraek labetalol, nifedipin (retard) eller methyldopa.">>
                ELSE <<>>)
    IN  [first_line |-> first_line, combos |-> combos,
         avoid |-> avoid, rationales |-> rationales]

med_recommendations(p) ==
    LET l == med_lists(p) IN
    [first_line_options |-> unique(l.first_line),
     combinations |-> unique(l.combos),
     avoid_or_caution |-> unique(l.avoid),
     rationales |-> unique(l.rationales)]

(***************************************************************************)
(* app.py: reference ranges and risk category                              *)
(***************************************************************************)
\* na and k in tenths, egfr in units, urate in hundredths; each range is <<lo, hi>>
age_adjusted_refs(age) ==
    LET step70 == IF age >= 70 THEN 1 ELSE 0
        step80 == IF age >= 80 THEN 1 ELSE 0
        na_low == 1370 - 5 * step70 - 5 * step80
        na_high == 1450 - 5 * step70 - 5 * step80
        k_low == 35
        k_high == 50 + step70 + step80
        egfr_high == 120
        decayed == egfr_high - (age - 40)
        expected == IF age <= 40 THEN egfr_high
                    ELSE IF decayed >= 60 THEN decayed ELSE 60
        egfr_lo == 60
    IN  [na |-> <<na_low, na_high>>, k |-> <<k_low, k_high>>,
         egfr |-> <<egfr_lo, expected>>, urate |-> <<20, 42>>]

\* risk_category with a fault: the cut points compared with <= instead of <
risk_category_inclusive(score2_pct, age) ==
    IF score2_pct = None THEN <<"Ukendt", "gray">>
    ELSE LET cuts == IF 40 <= age /\ age <= 49 THEN <<25, 75>>
                     ELSE IF 50 <= age /\ age <= 59 THEN <<50, 100>>
                     ELSE IF 60 <= age /\ age <= 69 THEN <<75, 150>>
                     ELSE <<100, 200>>
         IN  IF score2_pct <= cuts[1] THEN <<"Lav risiko", "green">>
             ELSE IF score2_pct <= cuts[2] THEN <<"Moderat risiko", "orange">>
             ELSE <<"Hoej/Meget hoej risiko", "red">>

risk_category(score2_pct, age) ==
    IF score2_pct = None THEN <<"Ukendt", "gray">>
    ELSE LET cuts == IF 40 <= age /\ age <= 49 THEN <<25, 75>>
                     ELSE IF 50 <= age /\ age <= 59 THEN <<50, 100>>
                     ELSE IF 60 <= age /\ age <= 69 THEN <<75, 150>>
                     ELSE <<100, 200>>
             low == cuts[1]
             high == cuts[2]
         IN  IF score2_pct < low THEN <<"Lav risiko", "green">>
             ELSE IF score2_pct < high THEN <<"Moderat risiko", "orange">>
             ELSE <<"Hoej/Meget hoej risiko", "red">>

(***************************************************************************)
(* app.py: SCORE2 (coefficient tables and the linear predictor)            *)
(* A coefficient is kept in units of 1e-4; the linear predictor lp in      *)
(* units of 1e-6, which makes every term an exact integer:                 *)
(*   cage = (age-60)/5, csbp = (sbp-120)/20, ctc = (tc-6.0)/1.0,           *)
(*   chdl = (hdl-1.3)/0.5 with tc, hdl in tenths                           *)
(***************************************************************************)
Row(sex, term, coef) == [sex |-> sex, term |-> term, coef |-> coef]

COEFFS_FALLBACK ==
    <<Row("M", "cage", 3742), Row("M", "csbp", 2777), Row("M", "ctc", 1458),
      Row("M", "chdl", -2698), Row("M", "smoke", 6012), Row("M", "cage*csbp", -255),
      Row("M", "cage*ctc", -281), Row("M", "cage*chdl", 426), Row("M", "cage*smoke", -755),
      Row("F", "cage", 4648), Row("F", "csbp", 3131), Row("F", "ctc", 1002),
      Row("F", "chdl", -2606), Row("F", "smoke", 7744), Row("F", "cage*csbp", -277),
      Row("F", "cage*ctc", -226), Row("F", "cage*chdl", 613), Row("F", "cage*smoke", -1088)>>

\* s0_10y, scale1, scale2 in units of 1e-4
BASELINE_FALLBACK ==
    <<[sex |-> "M", region |-> "NorthernEurope", s0_10y |-> 9605, scale1 |-> -5699, scale2 |-> 7476],
      [sex |-> "F", region |-> "NorthernEurope", s0_10y |-> 9776, scale1 |-> -7380, scale2 |-> 7019]>>

\* lines 51-57, 76-77: coeff_df is the CSV when it could be read, the fallback otherwise
ResolveCoeffs(csv) == IF csv.found THEN csv.rows ELSE COEFFS_FALLBACK

\* .str.upper().str[0] of the sex labels a table may carry
SexInitial(label) ==
    CASE label \in {"M", "m", "Male", "male", "Mand"} -> "M"
      [] label \in {"F", "f", "Female", "female"} -> "F"
      [] label \in {"K", "Kvinde"} -> "K"
      [] OTHER -> "?"

\* str(term).lower() of the term names a table may carry
LowerTerm(term) ==
    CASE term = "CAGE" -> "cage"
      [] term = "CSBP" -> "csbp"
      [] term = "cHDL" -> "chdl"
      [] OTHER -> term

RECURSIVE SelectRows(_, _)
SelectRows(table, sex_code) ==
    IF Len(table) = 0 THEN <<>>
    ELSE (IF SexInitial(table[1].sex) = sex_code THEN <<table[1]>> ELSE <<>>)
         \o SelectRows(Tail(table), sex_code)

\* .str.lower() of the region labels a table may carry
LowerRegion(region) ==
    CASE region = "NorthernEurope" -> "northerneurope"
      [] region = "Low" -> "low"
      [] region = "Nordeuropa" -> "nordeuropa"
      [] OTHER -> region

RECURSIVE PreferredRegion(_)
PreferredRegion(rows) ==
    IF Len(rows) = 0 THEN <<>>
    ELSE (IF LowerRegion(rows[1].region) \in {"northerneurope", "low", "low-risk", "nordeuropa"}
          THEN <<rows[1]>> ELSE <<>>)
         \o PreferredRegion(Tail(rows))

\* TermValue with a fault: HDL centred the wrong way round, (1.3 - hdl) / 0.5
TermValueHdlReversed(row, age, sbp, tc, hdl, csmoke) ==
    LET term == LowerTerm(row.term)
        coef == row.coef
        cage5 == age - 60
        csbp20 == sbp - 120
        ctc10 == tc - 60
        chdl5 == 13 - hdl
    IN  IF term = "cage" THEN coef * cage5 * 20
        ELSE IF term = "csbp" THEN coef * csbp20 * 5
        ELSE IF term \in {"ctc", "ctchol"} THEN coef * ctc10 * 10
        ELSE IF term = "chdl" THEN coef * chdl5 * 20
        ELSE IF term \in {"smoke", "current_smoker"} THEN coef * csmoke * 100
        ELSE IF term \in {"cage*csbp", "cage_csbp"} THEN coef * cage5 * csbp20
        ELSE IF term \in {"cage*ctc", "cage_ctchol"} THEN coef * cage5 * ctc10 * 2
        ELSE IF term \in {"cage*chdl", "cage_chdl"} THEN coef * cage5 * chdl5 * 4
        ELSE IF term \in {"cage*smoke", "cage_smoker"} THEN coef * cage5 * csmoke * 20
        ELSE 0

\* one pass of the loop body at lines 123-142, in units of 1e-6
TermValue(row, age, sbp, tc, hdl, csmoke) ==
    LET term == LowerTerm(row.term)
        coef == row.coef
        cage5 == age - 60
        csbp20 == sbp - 120
        ctc10 == tc - 60
        chdl5 == hdl - 13
    IN  IF term = "cage" THEN coef * cage5 * 20
        ELSE IF term = "csbp" THEN coef * csbp20 * 5
        ELSE IF term \in {"ctc", "ctchol"} THEN coef * ctc10 * 10
        ELSE IF term = "chdl" THEN coef * chdl5 * 20
        ELSE IF term \in {"smoke", "current_smoker"} THEN coef * csmoke * 100
        ELSE IF term \in {"cage*csbp", "cage_csbp"} THEN coef * cage5 * csbp20
        ELSE IF term \in {"cage*ctc", "cage_ctchol"} THEN coef * cage5 * ctc10 * 2
        ELSE IF term \in {"cage*chdl", "cage_chdl"} THEN coef * cage5 * chdl5 * 4
        ELSE IF term \in {"cage*smoke", "cage_smoker"} THEN coef * cage5 * csmoke * 20
        ELSE 0

RECURSIVE LinearPredictor(_, _, _, _, _, _)
LinearPredictor(df, age, sbp, tc, hdl, csmoke) ==
    IF Len(df) = 0 THEN 0
    ELSE TermValue(df[1], age, sbp, tc, hdl, csmoke)
         + LinearPredictor(Tail(df), age, sbp, tc, hdl, csmoke)

\* The result is None, or the arguments of the survival transform of lines
\* 159-163 (risk = 100 * clamp(1 - exp(-exp(scale1 + scale2 * ln(-ln(1 - u))))),
\* u = clamp(1 - s0 ^ exp(lp))), which is non-decreasing in lp for 0 < s0 < 1
\* and scale2 > 0.
calculate_score2(table, baseline, age, sex_label, sbp, tc, hdl, smoker_label) ==
    LET sex_code == IF sex_label \in {"Mand", "M"} THEN "M" ELSE "F"
        df == SelectRows(table, sex_code)
        csmoke == IF smoker_label = "Ja" THEN 1 ELSE 0
        preferred == PreferredRegion(SelectRows(baseline, sex_code))
        base == IF Len(preferred) = 0 THEN SelectRows(baseline, sex_code) ELSE preferred
    IN  IF Len(df) = 0 THEN [score |-> FALSE]
        ELSE IF Len(base) = 0 THEN [score |-> FALSE]
        ELSE [score |-> TRUE,
              lp |-> LinearPredictor(df, age, sbp, tc, hdl, csmoke),
              s0 |-> base[1].s0_10y, scale1 |-> base[1].scale1, scale2 |-> base[1].scale2]

(***************************************************************************)
(* The inputs.  A patient record carries the fields of both programs:      *)
(* the widget values of app.py (lines 215-249, 271, 299) and the Patient   *)
(* dataclass of gp_htn_support.py (edema is peripheral_edema_tendency).    *)
(***************************************************************************)
Flags ==
    {"diabetes", "ckd", "proteinuria", "cad", "heart_failure", "af",
     "stroke_tia", "pregnancy", "gout", "asthma_copd", "edema"}

Interactions == {InteractionOrder[i] : i \in 1..Len(InteractionOrder)}

\* the widget defaults of app.py; ticked is the set of ticked check boxes
MakePatient(ticked, age, sex, sbp, tc, hdl, smoker, pct, na, k, egfr, urate) ==
    [age |-> age, sex |-> sex, sbp |-> sbp, tc |-> tc, hdl |-> hdl, smoker |-> smoker,
     score2_pct |-> pct, na |-> na, k |-> k, egfr |-> egfr, urate |-> urate,
     diabetes |-> "diabetes" \in ticked, ckd |-> "ckd" \in ticked,
     proteinuria |-> "proteinuria" \in ticked, cad |-> "cad" \in ticked,
     heart_failure |-> "heart_failure" \in ticked, af |-> "af" \in ticked,
     stroke_tia |-> "stroke_tia" \in ticked, pregnancy |-> "pregnancy" \in ticked,
     gout |-> "gout" \in ticked, asthma_copd |-> "asthma_copd" \in ticked,
     edema |-> "edema" \in ticked,
     interactions |-> ticked \cap Interactions]

SbpGrid == {120 + 10 * i : i \in 0..NSbp}
RiskGrid == {50 + 25 * i : i \in 0..NRisk}

NotRun == <<>>

Idle ==
    /\ recommendation = NotRun
    /\ med = NotRun
    /\ cat = NotRun
    /\ s2 = NotRun
    /\ auto_score2 = NotRun
    /\ refs = NotRun

NoFile == [found |-> FALSE]

Tables ==
    /\ coeff_df = ResolveCoeffs(NoFile)
    /\ baseline_df = BASELINE_FALLBACK

(***************************************************************************)
(* Spec: the recommendation engine of app.py on every patient of the grid, *)
(* and the rules engine of gp_htn_support.py on the same patient           *)
(***************************************************************************)
Init ==
    /\ pc = "input"
    /\ \E ticked \in {t \in SUBSET ((Flags \ {"stroke_tia"}) \cup Interactions) :
                        Cardinality(t) <= MaxFlags},
          sbp \in SbpGrid, pct \in RiskGrid,
          na \in {1329, 1330, 1380}, k \in {42, 50}, egfr \in {29, 85}, urate \in {42, 43} :
          patient = MakePatient(ticked, 58, "Mand", sbp, 58, 13, "Nej", pct, na, k, egfr, urate)
    /\ Tables
    /\ Idle

\* app.py:520  recommendation, mode, grade = build_recommendation(...)
Recommend ==
    /\ pc = "input"
    /\ recommendation' = build_recommendation(patient)
    /\ pc' = "build_recommendation"
    /\ UNCHANGED <<patient, coeff_df, baseline_df, med, cat, s2, auto_score2, refs>>

\* gp_htn_support.py:241  out = med_recommendations(p), for the patient the
\* app has evaluated
CrossCheck ==
    /\ pc = "build_recommendation"
    /\ med' = med_recommendations(patient)
    /\ pc' = "both"
    /\ UNCHANGED <<patient, coeff_df, baseline_df, recommendation, cat, s2, auto_score2, refs>>

Next == Recommend \/ CrossCheck

Spec == Init /\ [][Next]_vars

(***************************************************************************)
(* SpecMed: med_recommendations on every Patient of the grid (labs may be  *)
(* unknown)                                                                *)
(***************************************************************************)
InitMed ==
    /\ pc = "input"
    /\ \E ticked \in {t \in SUBSET Flags : Cardinality(t) <= MaxMedFlags},
          na \in {None, 1330, 1331}, k \in {None, 34, 42, 50},
          egfr \in {None, 29, 59, 85}, urate \in {None, 42, 43} :
          patient = MakePatient(ticked, 58, "M", 150, 58, 13, "Nej", 70, na, k, egfr, urate)
    /\ Tables
    /\ Idle

\* gp_htn_support.py:241  out = med_recommendations(p)
MedRecommend ==
    /\ pc = "input"
    /\ med' = med_recommendations(patient)
    /\ pc' = "med_recommendations"
    /\ UNCHANGED <<patient, coeff_df, baseline_df, recommendation, cat, s2, auto_score2, refs>>

NextMed == MedRecommend

SpecMed == InitMed /\ [][NextMed]_vars

(***************************************************************************)
(* SpecRisk: the functions of age and percentage                           *)
(***************************************************************************)
PctGrid == {None} \cup {25 * i : i \in 0..NPct}

InitRisk ==
    /\ pc = "input"
    /\ \E age \in 0..MaxAge, pct \in PctGrid :
          patient = MakePatient({}, age, "Mand", 150, 58, 13, "Nej", pct, 1380, 42, 85, 35)
    /\ Tables
    /\ Idle

\* app.py:275  cat, color = risk_category(score2_final, int(alder))
Categorise ==
    /\ pc = "input"
    /\ cat' = risk_category(patient.score2_pct, patient.age)
    /\ pc' = "risk_category"
    /\ UNCHANGED <<patient, coeff_df, baseline_df, recommendation, med, s2, auto_score2, refs>>

\* gp_htn_support.py:235  s2 = score2_intervention_flag(p)
InterventionFlag ==
    /\ pc = "input"
    /\ s2' = score2_intervention_flag(patient)
    /\ pc' = "score2_intervention_flag"
    /\ UNCHANGED <<patient, coeff_df, baseline_df, recommendation, med, cat, auto_score2, refs>>

\* app.py:240  refs = age_adjusted_refs(int(alder))
ReferenceRanges ==
    /\ pc = "input"
    /\ refs' = age_adjusted_refs(patient.age)
    /\ pc' = "age_adjusted_refs"
    /\ UNCHANGED <<patient, coeff_df, baseline_df, recommendation, med, cat, s2, auto_score2>>

NextRisk == Categorise \/ InterventionFlag \/ ReferenceRanges

SpecRisk == InitRisk /\ [][NextRisk]_vars

(***************************************************************************)
(* SpecScore: calculate_score2 under every coefficient file of CsvFiles    *)
(***************************************************************************)
MinAge == 18

\* the rows a score2_coefficients.csv may hold for one sex: none, a complete
\* set (its own values, synonyms for some terms), or a set lacking csbp
CsvPart(sex, kind) ==
    IF kind = "none" THEN <<>>
    ELSE <<Row(sex, "cage", 4000)>>
         \o (IF kind = "complete" THEN <<Row(sex, "CSBP", 3000)>> ELSE <<>>)
         \o <<Row(sex, "ctchol", 1500), Row(sex, "chdl", -2500),
              Row(sex, "current_smoker", 6500), Row(sex, "cage_csbp", -250),
              Row(sex, "cage_ctchol", -250), Row(sex, "cage_chdl", 400),
              Row(sex, "cage_smoker", -800), Row(sex, "diabetes", 6000)>>

CsvFiles ==
    {NoFile} \cup
    {[found |-> TRUE, rows |-> CsvPart("M", m) \o CsvPart("F", f)] :
        m \in {"none", "complete", "partial"}, f \in {"none", "complete", "partial"}}

InitScore ==
    /\ pc = "input"
    /\ \E age \in MinAge..MaxAge, sex \in {"Mand", "Kvinde"}, smoker \in {"Nej", "Ja"},
          sbp \in {110 + 40 * i : i \in 0..NScoreSbp}, hdl \in {8 + 6 * i : i \in 0..NHdl} :
          patient = MakePatient({}, age, sex, sbp, 58, hdl, smoker, 70, 1380, 42, 85, 35)
    /\ \E csv \in CsvFiles : coeff_df = ResolveCoeffs(csv)
    /\ baseline_df = BASELINE_FALLBACK
    /\ Idle

\* app.py:273  auto_score2 = calculate_score2(alder, koen, sbp, tc, hdl, ryger)
Score ==
    /\ pc = "input"
    /\ auto_score2' = calculate_score2(coeff_df, baseline_df, patient.age, patient.sex,
                                       patient.sbp, patient.tc, patient.hdl, patient.smoker)
    /\ pc' = "calculate_score2"
    /\ UNCHANGED <<patient, coeff_df, baseline_df, recommendation, med, cat, s2, refs>>

NextScore == Score

SpecScore == InitScore /\ [][NextScore]_vars

(***************************************************************************)
(* Properties                                                              *)
(***************************************************************************)
Recommended == pc \in {"build_recommendation", "both"}

FirstlineNames == {recommendation.firstline[i].name : i \in 1..Len(recommendation.firstline)}

AvoidTexts == {recommendation.avoid[i].text : i \in 1..Len(recommendation.avoid)}

ClassNames(cls) == {DRUGS[cls][i].name : i \in 1..Len(DRUGS[cls])}

Elements(seq) == {seq[i] : i \in 1..Len(seq)}

MajorComorbidity ==
    \/ patient.diabetes \/ patient.ckd \/ patient.proteinuria
    \/ patient.heart_failure \/ patient.cad \/ patient.af

\* C1: the treatment mode is Pharmacologic for every SBP >= 160; for
\* 140 <= SBP < 160 exactly when a major comorbidity flag is set or risk >= 7.5 %;
\* for 130 <= SBP < 140 exactly when such a flag is set or risk >= 10.0 %; and
\* Conservative for every SBP < 130.
C1_TreatmentMode ==
    Recommended =>
        LET pharmacologic ==
                \/ patient.sbp >= 160
                \/ patient.sbp >= 140 /\ patient.sbp < 160
                     /\ (MajorComorbidity \/ patient.score2_pct >= 75)
                \/ patient.sbp >= 130 /\ patient.sbp < 140
                     /\ (MajorComorbidity \/ patient.score2_pct >= 100)
        IN  /\ recommendation.mode \in {"Pharmacologic", "Conservative"}
            /\ recommendation.mode = "Pharmacologic" <=> pharmacologic

\* Grade 1 with no flag and a risk of exactly 7.5 % has been given Pharmacologic
C1_Witness ==
    /\ Recommended
    /\ patient.sbp = 150 /\ ~MajorComorbidity /\ patient.score2_pct = 75
    /\ recommendation.mode = "Pharmacologic"

\* C2: risk_category is Unknown without a percentage; else Low below the low
\* cut of the age band, Moderate from the low cut up to the high cut, High/Very
\* high from the high cut, with cuts (2.5, 7.5) for 40-49, (5, 10) for 50-59,
\* (7.5, 15) for 60-69 and (10, 20) for every other age.
C2_RiskCategory ==
    pc = "risk_category" =>
        LET age == patient.age
            pct == patient.score2_pct
            lowcut == CASE age \in 40..49 -> 25 [] age \in 50..59 -> 50
                        [] age \in 60..69 -> 75 [] OTHER -> 100
            highcut == CASE age \in 40..49 -> 75 [] age \in 50..59 -> 100
                         [] age \in 60..69 -> 150 [] OTHER -> 200
        IN  IF pct = None THEN cat[1] = "Ukendt"
            ELSE /\ pct < lowcut => cat[1] = "Lav risiko"
                 /\ (lowcut <= pct /\ pct < highcut) => cat[1] = "Moderat risiko"
                 /\ pct >= highcut => cat[1] = "Hoej/Meget hoej risiko"

\* a 65 year old at exactly 7.5 % has been put in the Moderate band
C2_Witness ==
    /\ pc = "risk_category"
    /\ patient.age = 65 /\ patient.score2_pct = 75
    /\ cat[1] = "Moderat risiko"

\* C3: for ages 40-75 with a percentage, intervention_recommended is Yes exactly
\* when the percentage reaches the age threshold (5.0 for 40-59, 7.5 for 60-69,
\* 10.0 for 70-75) and No otherwise; for every age outside 40-75 both
\* intervention_recommended and threshold are absent.
C3_InterventionFlag ==
    pc = "score2_intervention_flag" =>
        LET age == patient.age
            pct == patient.score2_pct
            th == CASE age \in 40..59 -> 50 [] age \in 60..69 -> 75 [] OTHER -> 100
        IN  /\ (age \in 40..75 /\ pct /= None) =>
                   s2.intervention_recommended = (IF pct >= th THEN "Yes" ELSE "No")
            /\ age \notin 40..75 =>
                   /\ s2.intervention_recommended = NoneText
                   /\ s2.threshold = NoneText

\* a 72 year old at exactly 10.0 % has been flagged Yes
C3_Witness ==
    /\ pc = "score2_intervention_flag"
    /\ patient.age = 72 /\ patient.score2_pct = 100
    /\ s2.intervention_recommended = "Yes"

\* C4: whenever pregnancy is true the first-line list of either engine is
\* exactly labetalol, nifedipine-retard, methyldopa, in that order, and the
\* avoid list tells to avoid ACE inhibitor, ARB and MRA.
C4_PregnancyFirstline ==
    patient.pregnancy =>
        /\ Recommended =>
              /\ [i \in 1..Len(recommendation.firstline) |-> recommendation.firstline[i].name]
                    = [i \in 1..Len(DRUGS.PREG) |-> DRUGS.PREG[i].name]
              /\ "Graviditet: undgaa ACE/ARB/MRA." \in AvoidTexts
        /\ pc = "both" =>
              /\ med.first_line_options = <<"Labetalol", "Nifedipin (retard)", "Methyldopa">>
              /\ {"ACE-haemmer", "ARB", "MRA (spironolakton/eplerenon)"}
                    \subseteq Elements(med.avoid_or_caution)

\* C5: with potassium >= 5.0 the avoid list of build_recommendation holds the
\* hyperkalemia item and the first-line list holds no ACE inhibitor and no ARB.
C5_HyperkalemiaNoRaas ==
    (Recommended /\ patient.k >= 50) =>
        /\ "Hyperkaliaemi: undgaa ACE/ARB/MRA indtil korrigeret." \in AvoidTexts
        /\ FirstlineNames \cap (ClassNames("ACE") \cup ClassNames("ARB")) = {}

\* a hyperkalemic patient has been given a non-empty Pharmacologic first line
C5_Witness ==
    /\ Recommended
    /\ patient.k >= 50 /\ ~patient.pregnancy
    /\ recommendation.mode = "Pharmacologic"
    /\ recommendation.firstline /= <<>>

RaasOptions ==
    {"ACE-haemmer ELLER ARB", "ACE-haemmer eller ARB",
     "ACE-haemmer eller ARB (nefroprotektion ved proteinuri/CKD)",
     "ACE-haemmer eller ARB (isaer ved albuminuri)"}

\* C6: with potassium >= 5.0, avoid_or_caution of med_recommendations holds the
\* ACE inhibitor, ARB and potassium-sparing entries and first_line_options
\* recommends no RAAS blocker, the default first-line list included.
C6_MedHyperkalemiaNoRaas ==
    (pc = "med_recommendations" /\ patient.k /= None /\ patient.k >= 50) =>
        /\ {"ACE-haemmer (midlertidigt/individuelt)", "ARB (midlertidigt/individuelt)",
            "K+-besparende diuretika (fx spironolakton)"}
              \subseteq Elements(med.avoid_or_caution)
        /\ Elements(med.first_line_options) \cap RaasOptions = {}

\* index of the first occurrence of x in seq
FirstIndex(seq, x) == CHOOSE i \in 1..Len(seq) : seq[i] = x /\ \A j \in 1..(i - 1) : seq[j] /= x

\* out holds every element of raw exactly once, in the order of first insertion
FirstSeenOrder(out, raw) ==
    /\ Elements(out) = Elements(raw)
    /\ \A i, j \in 1..Len(out) : i < j =>
          /\ out[i] /= out[j]
          /\ FirstIndex(raw, out[i]) < FirstIndex(raw, out[j])

\* C7: each of the four lists med_recommendations returns holds every string
\* the rules appended exactly once, in the order of first insertion.
C7_UniqueLists ==
    pc = "med_recommendations" =>
        LET raw == med_lists(patient) IN
        /\ FirstSeenOrder(med.first_line_options, raw.first_line)
        /\ FirstSeenOrder(med.combinations, raw.combos)
        /\ FirstSeenOrder(med.avoid_or_caution, raw.avoid)
        /\ FirstSeenOrder(med.rationales, raw.rationales)

\* low sodium and gout both appended the thiazide class, and it is listed once
C7_Witness ==
    /\ pc = "med_recommendations"
    /\ patient.na /= None /\ patient.na <= 1330 /\ patient.gout
    /\ Len(med.avoid_or_caution) < Len(med_lists(patient).avoid)
    /\ Cardinality({i \in 1..Len(med.avoid_or_caution) :
                       med.avoid_or_caution[i] = "Tiazid(-lign.) diuretikum"}) = 1

\* C8: the first-line list of build_recommendation names no drug more than once.
C8_FirstlineNoDuplicate ==
    Recommended =>
        \A i, j \in 1..Len(recommendation.firstline) :
            i /= j => recommendation.firstline[i].name /= recommendation.firstline[j].name

RequiredTerms ==
    <<{"cage"}, {"csbp"}, {"ctc", "ctchol"}, {"chdl"}, {"smoke", "current_smoker"},
      {"cage*csbp", "cage_csbp"}, {"cage*ctc", "cage_ctchol"},
      {"cage*chdl", "cage_chdl"}, {"cage*smoke", "cage_smoker"}>>

\* the table in force holds a row for every required term of the sex
CompleteFor(table, sex_code) ==
    LET rows == SelectRows(table, sex_code)
        terms == {LowerTerm(rows[i].term) : i \in 1..Len(rows)}
    IN  \A t \in 1..Len(RequiredTerms) : terms \cap RequiredTerms[t] /= {}

DefaultScore ==
    calculate_score2(COEFFS_FALLBACK, baseline_df, patient.age, patient.sex,
                     patient.sbp, patient.tc, patient.hdl, patient.smoker)

\* C9: when the supplied coefficient table lacks a required term for men (or has
\* no rows for men), a man's score is the one the built-in coefficients give.
C9_PartialOverrideKeepsDefault ==
    (pc = "calculate_score2" /\ patient.sex = "Mand" /\ ~CompleteFor(coeff_df, "M")) =>
        auto_score2 = DefaultScore

ScoreWith(sbp, hdl) ==
    calculate_score2(coeff_df, baseline_df, patient.age, patient.sex,
                     sbp, patient.tc, hdl, patient.smoker)

SbpNeverLowers ==
    \A sbp \in {110 + 40 * i : i \in 0..NScoreSbp} :
        sbp > patient.sbp => ScoreWith(sbp, patient.hdl).lp >= auto_score2.lp

HdlNeverRaises ==
    \A hdl \in {8 + 6 * i : i \in 0..NHdl} :
        hdl > patient.hdl => ScoreWith(patient.sbp, hdl).lp <= auto_score2.lp

\* C10 as stated: with the built-in coefficients, for both sexes and every age
\* 18-100, raising SBP never lowers the linear predictor and raising HDL never
\* raises it.
C10_MonotoneEveryAge ==
    (pc = "calculate_score2" /\ coeff_df = COEFFS_FALLBACK) =>
        SbpNeverLowers /\ HdlNeverRaises

\* C10 amended: raising SBP never lowers the linear predictor at any age;
\* raising HDL never raises it for men up to age 91 and for women up to age 81.
C10_Monotone ==
    (pc = "calculate_score2" /\ coeff_df = COEFFS_FALLBACK) =>
        /\ SbpNeverLowers
        /\ (patient.sex = "Mand" /\ patient.age <= 91) => HdlNeverRaises
        /\ (patient.sex = "Kvinde" /\ patient.age <= 81) => HdlNeverRaises

\* a man of 91 with the lowest SBP and HDL of the grid has been scored, and
\* both a higher SBP and a higher HDL change his linear predictor
C10_Witness ==
    /\ pc = "calculate_score2" /\ coeff_df = COEFFS_FALLBACK
    /\ patient.sex = "Mand" /\ patient.age = 91
    /\ patient.sbp = 110 /\ patient.hdl = 8
    /\ ScoreWith(150, 8).lp > auto_score2.lp
    /\ ScoreWith(110, 14).lp < auto_score2.lp

\* C11: for every age outside 40-75 the output of risk_category is
\* distinguishable from every output an age inside 40-75 can get: no percentage
\* gives an out-of-range age the output of an in-range age.
C11_OutOfRangeMarked ==
    (pc = "risk_category" /\ patient.age \notin 40..75 /\ patient.score2_pct /= None) =>
        \A age \in 40..75, pct \in PctGrid : risk_category(pct, age) /= cat

\* the class of DRUGS a first-line drug name belongs to
ClassOf(name) ==
    CHOOSE cls \in DOMAIN DRUGS : name \in ClassNames(cls)

\* the class of DRUGS an avoid target of INTERACTION_DEFS names
TargetClasses(target) ==
    CASE target = "ACE-haemmer" -> {"ACE"}
      [] target = "ARB" -> {"ARB"}
      [] target = "Tiazid(-lign.) diuretikum" -> {"THIAZIDE_LIKE"}
      [] target = "MRA (spironolakton/eplerenon)" -> {"MRA"}
      [] target = "Beta-blokker" -> {"BETA"}
      [] OTHER -> {}

\* the classes one item of out["avoid"] tells to avoid
AvoidedBy(text) ==
    CASE text = "Hyperkaliaemi: undgaa ACE/ARB/MRA indtil korrigeret." -> {"ACE", "ARB", "MRA"}
      [] text = "Hyponatriaemi: undgaa tiazid-lignende diuretika." -> {"THIAZIDE_LIKE"}
      [] text = "Urinsyregigt/forhoejet urat: undgaa tiazid-lignende diuretika." -> {"THIAZIDE_LIKE"}
      [] text = "Graviditet: undgaa ACE/ARB/MRA." -> {"ACE", "ARB", "MRA"}
      [] OTHER ->
           UNION {UNION {TargetClasses(INTERACTION_DEFS[drug].avoid[i]) :
                            i \in 1..Len(INTERACTION_DEFS[drug].avoid)} :
                     drug \in {d \in Interactions :
                                 /\ "avoid" \in DOMAIN INTERACTION_DEFS[d]
                                 /\ text = "Interaktion (" \o d \o "): undgaa "
                                            \o Join(INTERACTION_DEFS[d].avoid) \o "."}}

AvoidedClasses == UNION {AvoidedBy(t) : t \in AvoidTexts}

\* C12: build_recommendation never lists as first-line a drug of a class that
\* the avoid list of the same result tells to avoid, whichever rule put it
\* there, a checked interaction included.
C12_FirstlineNotAvoided ==
    Recommended =>
        \A i \in 1..Len(recommendation.firstline) :
            ClassOf(recommendation.firstline[i].name) \notin AvoidedClasses

MraSuggestion ==
    [text |-> "Resistent HT: overvej Spironolakton (Spiron) 25 mg x 1 (monitorer K+/kreatinin)."]

PlanBItems == {recommendation.planb[i] : i \in 1..Len(recommendation.planb)}

\* C13 as stated: whenever RAAS blockers are in the avoid set, SBP >= 160 and
\* potassium < 5.0, the plan-B list holds the MRA suggestion with its
\* monitoring caveat.
C13_PlanBWhenRaasAvoided ==
    (Recommended /\ {"ACE", "ARB"} \subseteq AvoidedClasses
       /\ patient.sbp >= 160 /\ patient.k < 50) =>
        MraSuggestion \in PlanBItems

\* C13 amended: whenever SBP >= 160, potassium < 5.0 and the patient is not
\* pregnant, the plan-B list holds the MRA suggestion with its monitoring
\* caveat, also when a checked interaction has put RAAS blockers in the avoid
\* set; for a pregnant patient the plan-B list is empty.
C13_PlanB ==
    Recommended =>
        /\ (patient.sbp >= 160 /\ patient.k < 50 /\ ~patient.pregnancy) =>
              MraSuggestion \in PlanBItems
        /\ patient.pregnancy => recommendation.planb = <<>>

\* RAAS blockers are in the avoid set through Lithium, and plan B holds the MRA
C13_Witness ==
    /\ Recommended
    /\ "Lithium" \in patient.interactions
    /\ {"ACE", "ARB"} \subseteq AvoidedClasses
    /\ patient.sbp >= 160 /\ patient.k < 50 /\ ~patient.pregnancy
    /\ MraSuggestion \in PlanBItems

Partner(cls, i) ==
    [name |-> DRUGS[cls][i].name, dose |-> DRUGS[cls][i].dose,
     note |-> "Kombinationsbehandling."]

FirstlineItems == {recommendation.firstline[i] : i \in 1..Len(recommendation.firstline)}

ThiazideContraindicated ==
    patient.na < 1330 \/ patient.egfr < 30 \/ patient.gout \/ patient.urate > 42

\* C14: in Pharmacologic mode for a non-pregnant patient the first-line list
\* holds combination partners exactly when SBP >= 160, or SBP >= 140 and
\* (diabetes or CKD or proteinuria or risk >= 10.0 %); then the calcium-channel
\* blocker is a partner, and the thiazide-like diuretics are partners exactly
\* when not (sodium < 133 or eGFR < 30 or gout or urate > 0.42).
C14_CombinationPartners ==
    (Recommended /\ recommendation.mode = "Pharmacologic" /\ ~patient.pregnancy) =>
        LET combo ==
                \/ patient.sbp >= 160
                \/ patient.sbp >= 140 /\
                     (\/ patient.diabetes \/ patient.ckd \/ patient.proteinuria
                      \/ patient.score2_pct >= 100)
            partners == {x \in FirstlineItems : x.note = "Kombinationsbehandling."}
        IN  /\ partners /= {} <=> combo
            /\ combo =>
                  /\ Partner("CCB_DHP", 1) \in partners
                  /\ \A i \in 1..Len(DRUGS.THIAZIDE_LIKE) :
                        Partner("THIAZIDE_LIKE", i) \in partners <=> ~ThiazideContraindicated
                  /\ \A x \in partners :
                        ClassOf(x.name) \in {"CCB_DHP", "THIAZIDE_LIKE"}

\* Grade 1 with a risk of exactly 10.0 % and low sodium: amlodipine is the only partner
C14_Witness ==
    /\ Recommended /\ recommendation.mode = "Pharmacologic" /\ ~patient.pregnancy
    /\ patient.sbp = 150 /\ patient.score2_pct = 100 /\ patient.na < 1330
    /\ ~(patient.diabetes \/ patient.ckd \/ patient.proteinuria)
    /\ {x \in FirstlineItems : x.note = "Kombinationsbehandling."} = {Partner("CCB_DHP", 1)}

\* C15: in Conservative mode the result carries the fixed six-item lifestyle
\* list; the first-line list is non-empty exactly when (diabetes or CKD or
\* proteinuria) and potassium < 5.0 and not pregnant, and then holds only
\* RAAS-blocker entries annotated as 'consider'; the plan-B list is empty.
C15_ConservativeMode ==
    (Recommended /\ recommendation.mode = "Conservative") =>
        /\ Len(recommendation.conservative) = 6
        /\ recommendation.conservative = Text(conservative_list)
        /\ recommendation.firstline /= <<>> <=>
              /\ patient.diabetes \/ patient.ckd \/ patient.proteinuria
              /\ patient.k < 50
              /\ ~patient.pregnancy
        /\ \A x \in FirstlineItems :
              /\ ClassOf(x.name) \in {"ACE", "ARB"}
              /\ x.note = "Overvej ved CKD/albuminuri/diabetes."
        /\ recommendation.planb = <<>>

\* a diabetic with normal blood pressure has been offered the ACE inhibitors to consider
C15_Witness ==
    /\ Recommended /\ recommendation.mode = "Conservative"
    /\ patient.diabetes /\ patient.k < 50 /\ ~patient.pregnancy
    /\ Len(recommendation.firstline) = 2

\* C16: for every age >= 0 each of the steps age >= 70 and age >= 80 moves the
\* sodium lower bound up by 0.5 and the upper bound down by 0.5 and raises the
\* potassium upper bound by 0.1; the eGFR upper bound is 120 up to age 40 and
\* max(60, 120 - (age - 40)) after; the urate interval and the potassium lower
\* bound do not depend on age; every interval has lo <= hi.
C16_ReferenceRanges ==
    pc = "age_adjusted_refs" =>
        LET age == patient.age
            steps == (IF age >= 70 THEN 1 ELSE 0) + (IF age >= 80 THEN 1 ELSE 0)
            decayed == 120 - (age - 40)
        IN  /\ refs.na = <<1370 + 5 * steps, 1450 - 5 * steps>>
            /\ refs.k = <<35, 50 + steps>>
            /\ refs.egfr[2] = (IF age <= 40 THEN 120 ELSE IF decayed > 60 THEN decayed ELSE 60)
            /\ refs.urate = <<20, 42>>
            /\ \A key \in {"na", "k", "egfr", "urate"} : refs[key][1] <= refs[key][2]

\* C17: the hyponatremia rule fires exactly when sodium is below 133: for every
\* sodium value build_recommendation and med_recommendations agree on whether
\* the thiazide-like diuretic is avoided because of sodium, and at exactly 133
\* neither does.
C17_SodiumRuleAgrees ==
    pc = "both" =>
        LET appFires == "Hyponatriaemi: undgaa tiazid-lignende diuretika." \in AvoidTexts
            medFires ==
                /\ "Tiazid(-lign.) diuretikum" \in Elements(med.avoid_or_caution)
                /\ "Hyponatriaemi kan forvaerres af tiazider; undgaa tilstanden er korrigeret."
                      \in Elements(med.rationales)
        IN  /\ appFires <=> medFires
            /\ appFires <=> patient.na < 1330
            /\ medFires <=> patient.na < 1330

\* C18: whenever build_recommendation decides Pharmacologic mode the first-line
\* list is non-empty, also with both RAAS blockers and thiazide-like diuretics
\* contraindicated.
C18_PharmacologicFirstlineNonEmpty ==
    (Recommended /\ recommendation.mode = "Pharmacologic") =>
        recommendation.firstline /= <<>>

\* hyperkalemia and low sodium together: the calcium-channel blocker is what is left
C18_Witness ==
    /\ Recommended /\ recommendation.mode = "Pharmacologic"
    /\ patient.k >= 50 /\ patient.na < 1330 /\ ~patient.pregnancy
    /\ FirstlineNames = ClassNames("CCB_DHP")

\* C19: the MRA suggestion is never in the plan-B list when potassium >= 5.0 or
\* the patient is pregnant, nor when SBP < 160 or the mode is Conservative; no
\* MRA is in the first-line list for any input.
C19_NoMraWhenUnsafe ==
    Recommended =>
        /\ (\/ patient.k >= 50 \/ patient.pregnancy \/ patient.sbp < 160
            \/ recommendation.mode = "Conservative") =>
              \A x \in PlanBItems : x /= MraSuggestion /\ recommendation.planb = <<>>
        /\ FirstlineNames \cap ClassNames("MRA") = {}

\* Grade 2 with hyperkalemia: Pharmacologic, and plan B stays empty
C19_Witness ==
    /\ Recommended /\ recommendation.mode = "Pharmacologic"
    /\ patient.sbp >= 160 /\ patient.k >= 50 /\ ~patient.pregnancy
    /\ recommendation.planb = <<>>

====
